---------------------------- MODULE Spec2Model ----------------------------
(***************************************************************************)
(* A state-machine model of IpcStreamFactory (vm/ipcstreamfactory.cpp):    *)
(* the registry of connection states, the shutdown flag and the poll loop  *)
(* of GetNextAvailableStream.                                              *)
(*                                                                         *)
(* The transport (DiagnosticsIpc::Create/Listen/Connect/Accept/Poll and    *)
(* SendIpcAdvertise_V1) is external: each of its results is a              *)
(* nondeterministic input of the action that calls it.  Streams are        *)
(* numbered in the order the transport opens them; 0 is nullptr.           *)
(* nPollAttempts is only logged by the code and is left out.               *)
(***************************************************************************)
EXTENDS Integers, Sequences, FiniteSets, TLC

VARIABLES
    conns,             \* s_rgpConnectionStates
    isShutdown,        \* s_isShutdown
    streams,           \* every IpcStream the transport has opened so far
    pc,                \* position of the thread inside GetNextAvailableStream
    pStream,           \* local of GetNextAvailableStream
    rgIpcPollHandles,  \* local of GetNextAvailableStream
    pollTimeoutMs,     \* local of GetNextAvailableStream
    fConnectSuccess,   \* local of GetNextAvailableStream
    retval,            \* local of GetNextAvailableStream
    ret,               \* the last call made on the factory and what it returned
    returned,          \* history: the streams handed to callers, in order
    prev,              \* history: the last round classified in the current call
    shutdownCalls,     \* history: number of Shutdown calls
    closeCalls,        \* history: number of CloseConnections calls
    nRegistered,       \* history: number of creates that returned true
    tmIn,              \* argument of a GetNextTimeout call
    tmOut              \* what that call returned

vars == <<conns, isShutdown, streams, pc, pStream, rgIpcPollHandles,
          pollTimeoutMs, fConnectSuccess, retval, ret, returned, prev,
          shutdownCalls, closeCalls, nRegistered, tmIn, tmOut>>

(* Bounds of the model. *)
MaxConns == 2
MaxStreams == 2
MaxShutdownCalls == 2
MaxCloseCalls == 1

(* static members of class IpcStreamFactory; the falloff factor 1.25 is    *)
(* kept as the fraction FalloffNum / FalloffDen.                           *)
s_pollTimeoutInfinite == -1
s_pollTimeoutMinMs == 10
s_pollTimeoutMaxMs == 500
FalloffNum == 5
FalloffDen == 4

Roles == {"Server", "Client"}
PollEvents == {"NONE", "SIGNALED", "HANGUP", "ERR"}
ConnectOutcomes == {"ok", "connectFail", "advertiseFail"}

\* new ServerConnectionState(pIpc) / new ClientConnectionState(pIpc)
NewConnectionState(role) ==
    [role |-> role, pStream |-> 0, nClose |-> 0, nShutdownClose |-> 0]

\* a stream as the transport's Connect or Accept hands it over
\* (history: adv counts the advertise sends, advOk is whether one succeeded,
\* claimedFrom is the connection GetConnectedStream took it from)
NewStream(from) ==
    [from |-> from, adv |-> 0, advOk |-> FALSE, deleted |-> FALSE, hungup |-> FALSE,
     claimedFrom |-> 0]

\* int32_t IpcStreamFactory::GetNextTimeout(int32_t currentTimeoutMs)
GetNextTimeout(currentTimeoutMs) ==
    IF currentTimeoutMs = s_pollTimeoutInfinite
    THEN s_pollTimeoutMinMs
    ELSE IF currentTimeoutMs >= s_pollTimeoutMaxMs
         THEN s_pollTimeoutMaxMs
         ELSE (currentTimeoutMs * FalloffNum) \div FalloffDen

PollHandle(pIpc, stream, userData) ==
    [pIpc |-> pIpc, pStream |-> stream, revents |-> "NONE", pUserData |-> userData]

\* GetIpcPollHandle that caches the connection before the advertise is sent
\* and leaves the deleted connection in the cache when the send fails
ClientGetIpcPollHandle_CachesBeforeAdvertise(c, i, outcome, st) ==
    IF c.pStream = 0
    THEN IF outcome = "connectFail"
         THEN [ok |-> FALSE, conn |-> c, streams |-> st, handle |-> PollHandle(0, 0, i)]
         ELSE LET id == Len(st) + 1
                  opened == [NewStream("Connect") EXCEPT !.adv = 1]
              IN  IF outcome = "advertiseFail"
                  THEN [ok |-> FALSE, conn |-> [c EXCEPT !.pStream = id],
                        streams |-> Append(st, [opened EXCEPT !.deleted = TRUE]),
                        handle |-> PollHandle(0, 0, i)]
                  ELSE [ok |-> TRUE, conn |-> [c EXCEPT !.pStream = id],
                        streams |-> Append(st, [opened EXCEPT !.advOk = TRUE]),
                        handle |-> PollHandle(0, id, i)]
    ELSE [ok |-> TRUE, conn |-> c, streams |-> st, handle |-> PollHandle(0, c.pStream, i)]

\* GetIpcPollHandle that sends the advertise whenever the handle is asked for
ClientGetIpcPollHandle_ReAdvertises(c, i, outcome, st) ==
    IF c.pStream = 0
    THEN IF outcome = "connectFail"
         THEN [ok |-> FALSE, conn |-> c, streams |-> st, handle |-> PollHandle(0, 0, i)]
         ELSE LET id == Len(st) + 1
                  opened == [NewStream("Connect") EXCEPT !.adv = 1]
              IN  IF outcome = "advertiseFail"
                  THEN [ok |-> FALSE, conn |-> c,
                        streams |-> Append(st, [opened EXCEPT !.deleted = TRUE]),
                        handle |-> PollHandle(0, 0, i)]
                  ELSE [ok |-> TRUE, conn |-> [c EXCEPT !.pStream = id],
                        streams |-> Append(st, [opened EXCEPT !.advOk = TRUE]),
                        handle |-> PollHandle(0, id, i)]
    ELSE [ok |-> TRUE, conn |-> c,
          streams |-> [st EXCEPT ![c.pStream].adv = @ + 1],
          handle |-> PollHandle(0, c.pStream, i)]

\* ClientConnectionState::GetIpcPollHandle; outcome is what Connect and
\* SendIpcAdvertise_V1 do when they are called.
ClientGetIpcPollHandle(c, i, outcome, st) ==
    IF c.pStream = 0
    THEN IF outcome = "connectFail"
         THEN [ok |-> FALSE, conn |-> c, streams |-> st, handle |-> PollHandle(0, 0, i)]
         ELSE LET id == Len(st) + 1
                  opened == [NewStream("Connect") EXCEPT !.adv = 1]
              IN  IF outcome = "advertiseFail"
                  THEN [ok |-> FALSE, conn |-> c,
                        streams |-> Append(st, [opened EXCEPT !.deleted = TRUE]),
                        handle |-> PollHandle(0, 0, i)]
                  ELSE [ok |-> TRUE, conn |-> [c EXCEPT !.pStream = id],
                        streams |-> Append(st, [opened EXCEPT !.advOk = TRUE]),
                        handle |-> PollHandle(0, id, i)]
    ELSE [ok |-> TRUE, conn |-> c, streams |-> st, handle |-> PollHandle(0, c.pStream, i)]

\* ServerConnectionState::GetIpcPollHandle
ServerGetIpcPollHandle(c, i, st) ==
    [ok |-> TRUE, conn |-> c, streams |-> st, handle |-> PollHandle(i, 0, i)]

\* virtual ConnectionState::GetIpcPollHandle
GetIpcPollHandle(c, i, outcome, st) ==
    IF c.role = "Client"
    THEN ClientGetIpcPollHandle(c, i, outcome, st)
    ELSE ServerGetIpcPollHandle(c, i, st)

\* GetConnectedStream that hands the stream out and keeps it cached
ClientGetConnectedStream_KeepsCache(c, st) ==
    [stream |-> c.pStream, conn |-> c, streams |-> st]

\* ClientConnectionState::GetConnectedStream
ClientGetConnectedStream(c, st) ==
    [stream |-> c.pStream, conn |-> [c EXCEPT !.pStream = 0], streams |-> st]

\* ServerConnectionState::GetConnectedStream; accepted is whether Accept
\* yields a stream.
ServerGetConnectedStream(c, accepted, st) ==
    IF accepted
    THEN [stream |-> Len(st) + 1, conn |-> c, streams |-> Append(st, NewStream("Accept"))]
    ELSE [stream |-> 0, conn |-> c, streams |-> st]

\* virtual ConnectionState::GetConnectedStream
GetConnectedStream(c, accepted, st) ==
    IF c.role = "Client"
    THEN ClientGetConnectedStream(c, st)
    ELSE ServerGetConnectedStream(c, accepted, st)

\* delete of an IpcStream pointer (delete nullptr does nothing)
Delete(st, id) ==
    IF id = 0 THEN st ELSE [st EXCEPT ![id].deleted = TRUE]

\* Reset that deletes the stream and keeps the pointer
ClientReset_KeepsPointer(c, st) ==
    [conn |-> c, streams |-> Delete(st, c.pStream)]

\* ClientConnectionState::Reset
ClientReset(c, st) ==
    [conn |-> [c EXCEPT !.pStream = 0], streams |-> Delete(st, c.pStream)]

\* ServerConnectionState::Reset
ServerReset(c, st) == [conn |-> c, streams |-> st]

\* virtual ConnectionState::Reset
Reset(c, st) ==
    IF c.role = "Client" THEN ClientReset(c, st) ELSE ServerReset(c, st)

\* HasActiveConnections that forgets the shutdown flag
HasActiveConnections_IgnoresShutdown == Len(conns) > 0

\* bool IpcStreamFactory::HasActiveConnections()
HasActiveConnections == ~isShutdown /\ Len(conns) > 0


-----------------------------------------------------------------------------
(* GetNextAvailableStream, lines 152-164: one pass over the registry that  *)
(* asks every connection state for its poll handle.  acc carries the       *)
(* registry, the opened streams, the poll set and fConnectSuccess.         *)
\* a pass over the registry that stops at the first connection without a
\* poll handle
RECURSIVE BuildPollHandles_StopsAtFailure(_, _, _)
BuildPollHandles_StopsAtFailure(i, acc, outcomes) ==
    IF i > Len(acc.conns) \/ ~acc.fConnectSuccess
    THEN acc
    ELSE LET r == GetIpcPollHandle(acc.conns[i], i, outcomes[i], acc.streams)
         IN  BuildPollHandles_StopsAtFailure(i + 1,
                 [conns |-> [acc.conns EXCEPT ![i] = r.conn],
                  streams |-> r.streams,
                  handles |-> IF r.ok THEN Append(acc.handles, r.handle) ELSE acc.handles,
                  fConnectSuccess |-> IF r.ok THEN acc.fConnectSuccess ELSE FALSE],
                 outcomes)

RECURSIVE BuildPollHandles(_, _, _)
BuildPollHandles(i, acc, outcomes) ==
    IF i > Len(acc.conns)
    THEN acc
    ELSE LET r == GetIpcPollHandle(acc.conns[i], i, outcomes[i], acc.streams)
         IN  BuildPollHandles(i + 1,
                 [conns |-> [acc.conns EXCEPT ![i] = r.conn],
                  streams |-> r.streams,
                  handles |-> IF r.ok THEN Append(acc.handles, r.handle) ELSE acc.handles,
                  fConnectSuccess |-> IF r.ok THEN acc.fConnectSuccess ELSE FALSE],
                 outcomes)

\* the backoff value whether or not every connection gave a handle
ChooseTimeout_AlwaysBackoff(connectSuccess, currentTimeoutMs) ==
    GetNextTimeout(currentTimeoutMs)

\* lines 166-168
ChooseTimeout(connectSuccess, currentTimeoutMs) ==
    IF connectSuccess THEN s_pollTimeoutInfinite ELSE GetNextTimeout(currentTimeoutMs)

\* history only: the stream behind handle h was classified HANGUP
MarkHungUp(st, h) ==
    IF h.pStream = 0 THEN st ELSE [st EXCEPT ![h.pStream].hungup = TRUE]

\* case PollEvents::HANGUP, lines 180-184
OnHangup(acc, h) ==
    LET r == Reset(acc.conns[h.pUserData], MarkHungUp(acc.streams, h))
    IN  [acc EXCEPT !.conns[h.pUserData] = r.conn,
                    !.streams = r.streams,
                    !.pollTimeoutMs = s_pollTimeoutMinMs,
                    !.hangup = TRUE]

\* history only: stream id was taken from the connection behind handle h
MarkClaimed(st, id, h) ==
    IF id = 0 THEN st ELSE [st EXCEPT ![id].claimedFrom = h.pUserData]

\* a SIGNALED case without the test of line 186: the last signaled stream wins
OnSignaled_LastWins(acc, h, accepted) ==
    LET r == GetConnectedStream(acc.conns[h.pUserData], accepted, acc.streams)
    IN  [acc EXCEPT !.conns[h.pUserData] = r.conn,
                    !.streams = MarkClaimed(r.streams, r.stream, h),
                    !.pStream = r.stream]

\* a SIGNALED case that resets the connections it does not claim from
OnSignaled_ResetsOthers(acc, h, accepted) ==
    IF acc.pStream = 0
    THEN LET r == GetConnectedStream(acc.conns[h.pUserData], accepted, acc.streams)
         IN  [acc EXCEPT !.conns[h.pUserData] = r.conn,
                         !.streams = MarkClaimed(r.streams, r.stream, h),
                         !.pStream = r.stream]
    ELSE LET r == Reset(acc.conns[h.pUserData], acc.streams)
         IN  [acc EXCEPT !.conns[h.pUserData] = r.conn,
                         !.streams = r.streams]

\* a SIGNALED case that gives up when GetConnectedStream yields no stream
OnSignaled_NullEndsCall(acc, h, accepted) ==
    IF acc.pStream = 0
    THEN LET r == GetConnectedStream(acc.conns[h.pUserData], accepted, acc.streams)
         IN  [acc EXCEPT !.conns[h.pUserData] = r.conn,
                         !.streams = MarkClaimed(r.streams, r.stream, h),
                         !.pStream = r.stream,
                         !.returnsNull = (r.stream = 0)]
    ELSE acc

\* case PollEvents::SIGNALED, lines 185-188
OnSignaled(acc, h, accepted) ==
    IF acc.pStream = 0
    THEN LET r == GetConnectedStream(acc.conns[h.pUserData], accepted, acc.streams)
         IN  [acc EXCEPT !.conns[h.pUserData] = r.conn,
                         !.streams = MarkClaimed(r.streams, r.stream, h),
                         !.pStream = r.stream]
    ELSE acc

\* an ERR that is passed over once a stream has been claimed
OnErr_UnlessClaimed(acc) ==
    IF acc.pStream # 0 THEN acc ELSE [acc EXCEPT !.returnsNull = TRUE]

\* case PollEvents::ERR, lines 189-190: return nullptr
OnErr(acc) == [acc EXCEPT !.returnsNull = TRUE]

\* a default case that gives up like ERR
OnDefault_ReturnsNull(acc) == [acc EXCEPT !.returnsNull = TRUE]

\* default, lines 191-193
OnDefault(acc) == acc

\* the switch of lines 178-194
ClassifyHandle(acc, h, accepted) ==
    CASE h.revents = "HANGUP" -> OnHangup(acc, h)
      [] h.revents = "SIGNALED" -> OnSignaled(acc, h, accepted)
      [] h.revents = "ERR" -> OnErr(acc)
      [] OTHER -> OnDefault(acc)

\* the for loop of lines 176-195; a return nullptr leaves it at once
RECURSIVE ClassifyFrom(_, _, _, _)
ClassifyFrom(i, acc, handles, accepts) ==
    IF i > Len(handles) \/ acc.returnsNull
    THEN acc
    ELSE ClassifyFrom(i + 1, ClassifyHandle(acc, handles[i], accepts[i]), handles, accepts)

\* lines 174-196
ClassifyRound(acc, rv, handles, accepts) ==
    IF rv # 0 THEN ClassifyFrom(1, acc, handles, accepts) ELSE acc

\* history only: the connections whose handle the round classified SIGNALED;
\* prev keeps it for the round that claims the stream the call returns
Signaled(rv, handles) ==
    IF rv = 0 THEN {}
    ELSE {handles[i].pUserData :
             i \in {j \in DOMAIN handles : handles[j].revents = "SIGNALED"}}

\* what Poll returns, as far as line 174 tells it apart: 0 (the timeout
\* elapsed, no event) or not 0
PollReturns == {0, 1}

NoPrev == [hangup |-> FALSE, incomplete |-> FALSE, timeout |-> s_pollTimeoutInfinite,
           signaled |-> {}]
NoCall == [op |-> "none", val |-> 0]

-----------------------------------------------------------------------------
Init ==
    /\ conns = <<>>
    /\ isShutdown = FALSE
    /\ streams = <<>>
    /\ pc = "idle"
    /\ pStream = 0
    /\ rgIpcPollHandles = <<>>
    /\ pollTimeoutMs = s_pollTimeoutInfinite
    /\ fConnectSuccess = TRUE
    /\ retval = 0
    /\ ret = NoCall
    /\ returned = <<>>
    /\ prev = NoPrev
    /\ shutdownCalls = 0
    /\ closeCalls = 0
    /\ nRegistered = 0
    /\ tmIn = s_pollTimeoutInfinite
    /\ tmOut = s_pollTimeoutInfinite

locals == <<pStream, rgIpcPollHandles, pollTimeoutMs, fConnectSuccess, retval, prev>>
tmvars == <<tmIn, tmOut>>

\* CreateServer that registers the connection state before Listen is tried
CreateServer_RegistersBeforeListen ==
    /\ pc = "idle"
    /\ \E createOk \in BOOLEAN, listenOk \in BOOLEAN :
         IF createOk
         THEN /\ Len(conns) < MaxConns
              /\ conns' = Append(conns, NewConnectionState("Server"))
              /\ nRegistered' = nRegistered + 1
              /\ ret' = [op |-> "CreateServer", val |-> IF listenOk THEN 1 ELSE 0]
         ELSE /\ ret' = [op |-> "CreateServer", val |-> 0]
              /\ UNCHANGED <<conns, nRegistered>>
    /\ UNCHANGED <<isShutdown, streams, pc, locals, returned, shutdownCalls, closeCalls>>
    /\ UNCHANGED tmvars

\* bool IpcStreamFactory::CreateServer: Create and Listen may each fail
CreateServer ==
    /\ pc = "idle"
    /\ \E createOk \in BOOLEAN, listenOk \in BOOLEAN :
         IF createOk /\ listenOk
         THEN /\ Len(conns) < MaxConns
              /\ conns' = Append(conns, NewConnectionState("Server"))
              /\ nRegistered' = nRegistered + 1
              /\ ret' = [op |-> "CreateServer", val |-> 1]
         ELSE /\ ret' = [op |-> "CreateServer", val |-> 0]
              /\ UNCHANGED <<conns, nRegistered>>
    /\ UNCHANGED <<isShutdown, streams, pc, locals, returned, shutdownCalls, closeCalls>>
    /\ UNCHANGED tmvars

\* bool IpcStreamFactory::CreateClient: Create may fail
CreateClient ==
    /\ pc = "idle"
    /\ \E createOk \in BOOLEAN :
         IF createOk
         THEN /\ Len(conns) < MaxConns
              /\ conns' = Append(conns, NewConnectionState("Client"))
              /\ nRegistered' = nRegistered + 1
              /\ ret' = [op |-> "CreateClient", val |-> 1]
         ELSE /\ ret' = [op |-> "CreateClient", val |-> 0]
              /\ UNCHANGED <<conns, nRegistered>>
    /\ UNCHANGED <<isShutdown, streams, pc, locals, returned, shutdownCalls, closeCalls>>
    /\ UNCHANGED tmvars

\* void IpcStreamFactory::CloseConnections: Close(callback) on every entry
CloseConnections ==
    /\ pc = "idle"
    /\ closeCalls < MaxCloseCalls
    /\ closeCalls' = closeCalls + 1
    /\ conns' = [i \in DOMAIN conns |-> [conns[i] EXCEPT !.nClose = @ + 1]]
    /\ ret' = [op |-> "CloseConnections", val |-> 0]
    /\ UNCHANGED <<isShutdown, streams, pc, locals, returned, shutdownCalls, nRegistered>>
    /\ UNCHANGED tmvars

\* Shutdown without the early return of lines 119-120
Shutdown_NoGuard ==
    /\ pc = "idle"
    /\ shutdownCalls < MaxShutdownCalls
    /\ shutdownCalls' = shutdownCalls + 1
    /\ ret' = [op |-> "Shutdown", val |-> 0]
    /\ isShutdown' = TRUE
    /\ conns' = [i \in DOMAIN conns |-> [conns[i] EXCEPT !.nShutdownClose = @ + 1]]
    /\ UNCHANGED <<streams, pc, locals, returned, closeCalls, nRegistered>>
    /\ UNCHANGED tmvars

\* void IpcStreamFactory::Shutdown
Shutdown ==
    /\ pc = "idle"
    /\ shutdownCalls < MaxShutdownCalls
    /\ shutdownCalls' = shutdownCalls + 1
    /\ ret' = [op |-> "Shutdown", val |-> 0]
    /\ IF isShutdown
       THEN UNCHANGED <<isShutdown, conns>>
       ELSE /\ isShutdown' = TRUE
            /\ conns' = [i \in DOMAIN conns |-> [conns[i] EXCEPT !.nShutdownClose = @ + 1]]
    /\ UNCHANGED <<streams, pc, locals, returned, closeCalls, nRegistered>>
    /\ UNCHANGED tmvars

\* GetNextAvailableStream, lines 143-152: the call starts its first round
EnterGetNextAvailableStream ==
    /\ pc = "idle"
    /\ pc' = "build"
    /\ pStream' = 0
    /\ rgIpcPollHandles' = <<>>
    /\ pollTimeoutMs' = s_pollTimeoutInfinite
    /\ fConnectSuccess' = TRUE
    /\ retval' = 0
    /\ prev' = NoPrev
    /\ ret' = NoCall
    /\ UNCHANGED <<conns, isShutdown, streams, returned, shutdownCalls, closeCalls, nRegistered>>
    /\ UNCHANGED tmvars

\* the connections whose GetIpcPollHandle calls Connect
Reconnecting == {i \in DOMAIN conns : conns[i].role = "Client" /\ conns[i].pStream = 0}

\* GetNextAvailableStream, lines 152-168: the poll set and the timeout of a round
BuildRound ==
    /\ pc = "build"
    /\ \E outcomes \in [DOMAIN conns -> ConnectOutcomes] :
         /\ \A i \in DOMAIN conns : i \notin Reconnecting => outcomes[i] = "ok"
         /\ Cardinality({i \in Reconnecting : outcomes[i] # "connectFail"})
                <= MaxStreams - Len(streams)
         /\ LET r == BuildPollHandles(1, [conns |-> conns, streams |-> streams,
                                          handles |-> rgIpcPollHandles,
                                          fConnectSuccess |-> TRUE], outcomes)
            IN  /\ conns' = r.conns
                /\ streams' = r.streams
                /\ rgIpcPollHandles' = r.handles
                /\ fConnectSuccess' = r.fConnectSuccess
                /\ pollTimeoutMs' = ChooseTimeout(r.fConnectSuccess, pollTimeoutMs)
    /\ pc' = "poll"
    /\ UNCHANGED <<isShutdown, pStream, retval, ret, returned, prev,
                   shutdownCalls, closeCalls, nRegistered>>
    /\ UNCHANGED tmvars

\* GetNextAvailableStream, line 170: Poll fills in revents and returns
PollRound ==
    /\ pc = "poll"
    /\ \E rv \in PollReturns, revents \in [DOMAIN rgIpcPollHandles -> PollEvents] :
         /\ rv = 0 => \A i \in DOMAIN rgIpcPollHandles : revents[i] = "NONE"
         /\ retval' = rv
         /\ rgIpcPollHandles' = [i \in DOMAIN rgIpcPollHandles |->
                                   [rgIpcPollHandles[i] EXCEPT !.revents = revents[i]]]
    /\ pc' = "classify"
    /\ UNCHANGED <<conns, isShutdown, streams, pStream, pollTimeoutMs, fConnectSuccess,
                   ret, returned, prev, shutdownCalls, closeCalls, nRegistered>>
    /\ UNCHANGED tmvars

\* GetNextAvailableStream, lines 174-200 and the loop test of line 150: the
\* events are classified; the call is left with nullptr (line 190) or with the
\* claimed stream (line 203), or another round starts (line 152)
ClassifyEvents ==
    /\ pc = "classify"
    /\ \E accepts \in [DOMAIN rgIpcPollHandles -> BOOLEAN] :
         /\ (\E i \in DOMAIN accepts : accepts[i]) => Len(streams) < MaxStreams
         /\ LET r == ClassifyRound([conns |-> conns, streams |-> streams,
                                    pStream |-> pStream, pollTimeoutMs |-> pollTimeoutMs,
                                    returnsNull |-> FALSE, hangup |-> FALSE],
                                   retval, rgIpcPollHandles, accepts)
                round == [hangup |-> r.hangup,
                          incomplete |-> ~fConnectSuccess /\ ~r.hangup,
                          timeout |-> IF ~fConnectSuccess /\ ~r.hangup
                                      THEN pollTimeoutMs
                                      ELSE s_pollTimeoutInfinite,
                          signaled |-> {}]
            IN  /\ conns' = r.conns
                /\ streams' = r.streams
                /\ pStream' = r.pStream
                /\ pollTimeoutMs' = r.pollTimeoutMs
                /\ IF r.returnsNull
                   THEN /\ pc' = "return"
                        /\ ret' = [op |-> "GetNextAvailableStream", val |-> 0]
                        /\ UNCHANGED <<rgIpcPollHandles, fConnectSuccess, retval, prev>>
                   ELSE /\ rgIpcPollHandles' = <<>>
                        /\ IF r.pStream # 0
                           THEN /\ pc' = "return"
                                /\ ret' = [op |-> "GetNextAvailableStream", val |-> r.pStream]
                                /\ prev' = [round EXCEPT !.signaled =
                                                Signaled(retval, rgIpcPollHandles)]
                                /\ UNCHANGED <<fConnectSuccess, retval>>
                           ELSE /\ pc' = "build"
                                /\ fConnectSuccess' = TRUE
                                /\ retval' = 0
                                /\ prev' = round
                                /\ UNCHANGED ret
    /\ UNCHANGED <<isShutdown, returned, shutdownCalls, closeCalls, nRegistered>>
    /\ UNCHANGED tmvars

\* the caller receives the result of GetNextAvailableStream; the locals of
\* the call are gone
ReturnToCaller ==
    /\ pc = "return"
    /\ pc' = "idle"
    /\ returned' = IF ret.val # 0 THEN Append(returned, ret.val) ELSE returned
    /\ pStream' = 0
    /\ rgIpcPollHandles' = <<>>
    /\ pollTimeoutMs' = s_pollTimeoutInfinite
    /\ fConnectSuccess' = TRUE
    /\ retval' = 0
    /\ prev' = NoPrev
    /\ UNCHANGED <<conns, isShutdown, streams, ret, shutdownCalls, closeCalls, nRegistered>>
    /\ UNCHANGED tmvars

Next ==
    \/ CreateServer
    \/ CreateClient
    \/ CloseConnections
    \/ Shutdown
    \/ EnterGetNextAvailableStream
    \/ BuildRound
    \/ PollRound
    \/ ClassifyEvents
    \/ ReturnToCaller

Spec == Init /\ [][Next]_vars

(* Registration and acquisition alone: GetNextAvailableStream reads neither *)
(* s_isShutdown nor anything CloseConnections or Shutdown writes.           *)
NextAcquire ==
    \/ CreateServer
    \/ CreateClient
    \/ EnterGetNextAvailableStream
    \/ BuildRound
    \/ PollRound
    \/ ClassifyEvents
    \/ ReturnToCaller

SpecAcquire == Init /\ [][NextAcquire]_vars

(* GetNextTimeout alone, applied to every argument up to MaxTimeoutArg. *)
MaxTimeoutArg == 600
TimeoutArgs == {s_pollTimeoutInfinite} \cup (0..MaxTimeoutArg)

InitTimeout ==
    /\ conns = <<>>
    /\ isShutdown = FALSE
    /\ streams = <<>>
    /\ pc = "GetNextTimeout"
    /\ pStream = 0
    /\ rgIpcPollHandles = <<>>
    /\ pollTimeoutMs = s_pollTimeoutInfinite
    /\ fConnectSuccess = TRUE
    /\ retval = 0
    /\ ret = NoCall
    /\ returned = <<>>
    /\ prev = NoPrev
    /\ shutdownCalls = 0
    /\ closeCalls = 0
    /\ nRegistered = 0
    /\ tmIn \in TimeoutArgs
    /\ tmOut = s_pollTimeoutInfinite

\* a call GetNextTimeout(tmIn)
CallGetNextTimeout ==
    /\ pc = "GetNextTimeout"
    /\ pc' = "GetNextTimeoutDone"
    /\ tmOut' = GetNextTimeout(tmIn)
    /\ UNCHANGED <<conns, isShutdown, streams, locals, ret, returned,
                   shutdownCalls, closeCalls, nRegistered, tmIn>>

NextTimeout == CallGetNextTimeout

SpecTimeout == InitTimeout /\ [][NextTimeout]_vars

-----------------------------------------------------------------------------
(* Vocabulary of the properties. *)
Range(f) == {f[i] : i \in DOMAIN f}
Cached == {conns[i].pStream : i \in DOMAIN conns} \ {0}
InRound == pc \in {"poll", "classify"}
\* the streams of the poll set of the round in progress
PollSetStreams ==
    IF InRound THEN {rgIpcPollHandles[i].pStream : i \in DOMAIN rgIpcPollHandles} \ {0}
    ELSE {}
\* the call is handing this stream to its caller
BeingReturned == IF pc = "return" /\ ret.val # 0 THEN {ret.val} ELSE {}
\* Poll reported events and classified some handle ERR
ErrClassified ==
    /\ retval # 0
    /\ \E i \in DOMAIN rgIpcPollHandles : rgIpcPollHandles[i].revents = "ERR"
ReturnsNull == pc = "return" /\ ret.op = "GetNextAvailableStream" /\ ret.val = 0

(* C1: every stream is returned by at most one GetNextAvailableStream call, *)
(* and once returned the factory holds no reference to it: it is in no      *)
(* client's cache, in no later poll set and is not returned again.          *)
C1_ReturnedOnce ==
    /\ \A i, j \in DOMAIN returned : i # j => returned[i] # returned[j]
    /\ Range(returned) \cap (Cached \cup PollSetStreams \cup BeingReturned) = {}
    /\ BeingReturned \cap Cached = {}

C1_Witness ==
    /\ Len(returned) = 2
    /\ streams[returned[1]].from = "Connect"
    /\ streams[returned[2]].from = "Connect"
    /\ Len(conns) = 1

(* C2: a client stream that was classified HANGUP is never again cached,    *)
(* polled or returned; every client stream in a poll set is a live stream   *)
(* that Connect opened and on which the advertise was sent.                 *)
C2_NoReuseAfterHangup ==
    /\ \A s \in DOMAIN streams :
         streams[s].hungup =>
            /\ s \notin Cached
            /\ s \notin PollSetStreams
            /\ s \notin Range(returned) \cup BeingReturned
    /\ \A s \in PollSetStreams :
         /\ streams[s].from = "Connect"
         /\ streams[s].adv = 1
         /\ ~streams[s].deleted

C2_Witness ==
    /\ pc = "poll"
    /\ Len(conns) = 1
    /\ \E s \in DOMAIN streams :
         /\ streams[s].hungup
         /\ \E t \in PollSetStreams : t > s /\ conns[1].pStream = t

(* C3: in a run of consecutive incomplete rounds of one call with no hangup *)
(* in between, the timeout passed to Poll is Minimum on the first round of  *)
(* the run and afterwards never below the previous one and never above      *)
(* Maximum.                                                                 *)
C3_BackoffMonotoneBounded ==
    (pc = "poll" /\ ~fConnectSuccess /\ ~prev.hangup) =>
        IF prev.incomplete
        THEN prev.timeout <= pollTimeoutMs /\ pollTimeoutMs <= s_pollTimeoutMaxMs
        ELSE pollTimeoutMs = s_pollTimeoutMinMs

(* C4: when a round classified a HANGUP and the next round of the call is   *)
(* incomplete, the timeout passed to Poll in that round is Minimum.         *)
C4_MinimumAfterHangup ==
    (pc = "poll" /\ ~fConnectSuccess /\ prev.hangup) =>
        pollTimeoutMs = s_pollTimeoutMinMs

(* C5: a round in which Poll reports events and some handle is classified   *)
(* ERR ends the call with nullptr, wherever the ERR handle stands and       *)
(* whatever the other handles are classified.                               *)
C5_ErrReturnsNull ==
    [][(pc = "classify" /\ ErrClassified) =>
          (pc' = "return" /\ ret'.op = "GetNextAvailableStream" /\ ret'.val = 0)]_vars

C5_Witness ==
    /\ ReturnsNull
    /\ Len(rgIpcPollHandles) = 2
    /\ rgIpcPollHandles[1].revents = "SIGNALED"
    /\ rgIpcPollHandles[2].revents = "ERR"

(* C6: when the call returns nullptr, every stream opened so far is owned:  *)
(* deleted, cached in its client connection state, or delivered to a        *)
(* caller.                                                                  *)
C6_NullLeavesStreamsOwned ==
    ReturnsNull =>
        \A s \in DOMAIN streams :
            streams[s].deleted \/ s \in Cached \/ s \in Range(returned)

(* C7: the call returns nullptr only from a round whose poll reported       *)
(* events with a handle classified ERR; a failed Connect or advertise, a    *)
(* hangup or a poll timeout never ends it: a round with no ERR and no       *)
(* claimed stream is followed by another round.                             *)
C7_NullOnlyOnErr ==
    [][/\ (pc # "return" /\ pc' = "return" /\ ret'.val = 0) =>
             (pc = "classify" /\ ErrClassified)
       /\ pc = "build" => pc' = "poll"
       /\ pc = "poll" => pc' = "classify"
       /\ (pc = "classify" /\ ~ErrClassified) =>
             \/ pc' = "build"
             \/ pc' = "return" /\ ret'.val # 0 /\ ret'.val = pStream']_vars

C7_Witness ==
    /\ pc = "build"
    /\ prev.incomplete
    /\ prev.timeout > s_pollTimeoutMinMs
    /\ \E s \in DOMAIN streams : streams[s].hungup

(* C8: the first Shutdown call sets the flag and gives every registered     *)
(* connection one Close(true, callback); every later Shutdown call changes  *)
(* nothing; no connection ever gets a second Close from Shutdown.           *)
C8_ShutdownIdempotent ==
    [][/\ shutdownCalls' # shutdownCalls =>
             IF isShutdown
             THEN UNCHANGED <<conns, isShutdown, streams, pc, locals, returned,
                              closeCalls, nRegistered>>
             ELSE /\ isShutdown'
                  /\ DOMAIN conns' = DOMAIN conns
                  /\ \A i \in DOMAIN conns :
                        conns'[i] = [conns[i] EXCEPT !.nShutdownClose = 1]
       /\ \A i \in DOMAIN conns' : conns'[i].nShutdownClose <= 1
       /\ isShutdown => isShutdown']_vars

C8_Witness ==
    /\ shutdownCalls = 2
    /\ Len(conns) = 2
    /\ conns[1].nShutdownClose = 1
    /\ conns[2].nShutdownClose = 1

(* C9: HasActiveConnections is true exactly when some create has returned   *)
(* true and Shutdown has never been called.                                 *)
C9_HasActiveConnections ==
    HasActiveConnections <=> (nRegistered > 0 /\ shutdownCalls = 0)

C9_Witness ==
    /\ HasActiveConnections
    /\ closeCalls > 0
    /\ \E s \in DOMAIN streams : streams[s].hungup

(* C10: Close is invoked at most once in total on each registered           *)
(* connection state, by CloseConnections or by Shutdown.                    *)
C10_ClosedAtMostOnce ==
    \A i \in DOMAIN conns : conns[i].nClose + conns[i].nShutdownClose <= 1

(* C11: once the shutdown flag is set, acquisition is gated: no step opens  *)
(* a stream (no Connect on a client, no Accept on a server) and no stream   *)
(* is handed to a caller.                                                   *)
C11_ShutdownGatesAcquisition ==
    [][isShutdown =>
          /\ Len(streams') = Len(streams)
          /\ returned' = returned
          /\ ~(pc' = "return" /\ ret'.val # 0)]_vars

(* C12: a create that returns false leaves the registry and the shutdown    *)
(* flag as they were; a create that returns true appends exactly one        *)
(* connection state of its role at the end of the registry and leaves the   *)
(* earlier entries and the flag as they were.                               *)
C12_CreateRegistersOrNothing ==
    [][\A role \in Roles :
          (ret'.op = IF role = "Server" THEN "CreateServer" ELSE "CreateClient") =>
             /\ isShutdown' = isShutdown
             /\ IF ret'.val = 0
                THEN conns' = conns
                ELSE /\ Len(conns') = Len(conns) + 1
                     /\ SubSeq(conns', 1, Len(conns)) = conns
                     /\ conns'[Len(conns')].role = role
                     /\ conns'[Len(conns')].pStream = 0]_vars

C12_Witness ==
    /\ ret = [op |-> "CreateServer", val |-> 0]
    /\ isShutdown
    /\ Len(conns) = 1
    /\ conns[1].role = "Client"

(* C13: with one server and one client registered, a client that fails to   *)
(* reconnect keeps no server out of the poll set, and a round in which the  *)
(* client failed, the server's handle is SIGNALED and Accept yields a       *)
(* stream returns that stream in the same round, leaving the client as it   *)
(* was; a client with an empty cache is tried again in every round built.   *)
OneServerOneClient ==
    /\ Len(conns) = 2
    /\ {conns[1].role, conns[2].role} = Roles

C13_ServerStreamDespiteFailingClient ==
    [][/\ (pc' = "poll" /\ OneServerOneClient') =>
             \A i \in DOMAIN conns' :
                conns'[i].role = "Server" =>
                   \E k \in DOMAIN rgIpcPollHandles' :
                      /\ rgIpcPollHandles'[k].pUserData = i
                      /\ rgIpcPollHandles'[k].pIpc = i
       /\ (/\ pc = "classify"
           /\ OneServerOneClient
           /\ ~fConnectSuccess
           /\ retval # 0
           /\ Len(rgIpcPollHandles) = 1
           /\ rgIpcPollHandles[1].revents = "SIGNALED"
           /\ Len(streams') > Len(streams)) =>
             /\ pc' = "return"
             /\ ret'.val = Len(streams')
             /\ streams'[ret'.val].from = "Accept"
             /\ conns' = conns
       /\ (pc = "build" /\ pc' = "poll") =>
             \A i \in Reconnecting : conns'[i].pStream # 0 \/ ~fConnectSuccess']_vars

C13_Witness ==
    /\ pc = "return"
    /\ ret.val # 0
    /\ streams[ret.val].from = "Accept"
    /\ ~fConnectSuccess
    /\ Len(conns) = 2
    /\ conns[1].role = "Client"
    /\ conns[1].pStream = 0
    /\ conns[2].role = "Server"
    /\ Len(returned) = 1

(* C14: GetNextTimeout equals the reference function for every argument:   *)
(* Minimum for Infinite, otherwise the smaller of Maximum and the argument  *)
(* times the falloff factor truncated to an integer; so its result never    *)
(* exceeds Maximum.                                                         *)
ReferenceTimeout(t) ==
    IF t = s_pollTimeoutInfinite
    THEN s_pollTimeoutMinMs
    ELSE IF (t * FalloffNum) \div FalloffDen > s_pollTimeoutMaxMs
         THEN s_pollTimeoutMaxMs
         ELSE (t * FalloffNum) \div FalloffDen

C14_GetNextTimeoutIsReference ==
    pc = "GetNextTimeoutDone" =>
       /\ tmOut = ReferenceTimeout(tmIn)
       /\ tmOut <= s_pollTimeoutMaxMs

(* C15: in every round the timeout handed to Poll is Infinite exactly when  *)
(* the poll set holds one handle per registered connection; when some       *)
(* connection gave no handle the timeout is finite and is the next backoff  *)
(* value after what the previous round left: Minimum in the first round or  *)
(* after a complete round, the successor of the previous round's timeout    *)
(* after an incomplete one, the successor of Minimum after a hangup.        *)
BackoffAfterPrev ==
    IF prev.hangup
    THEN GetNextTimeout(s_pollTimeoutMinMs)
    ELSE IF prev.incomplete
         THEN GetNextTimeout(prev.timeout)
         ELSE s_pollTimeoutMinMs

C15_InfiniteIffAllHandles ==
    pc \in {"poll", "classify"} =>
       /\ (pollTimeoutMs = s_pollTimeoutInfinite) <=>
             (Len(rgIpcPollHandles) = Len(conns))
       /\ (fConnectSuccess <=> Len(rgIpcPollHandles) = Len(conns))
       /\ Len(rgIpcPollHandles) <= Len(conns)
       /\ Len(rgIpcPollHandles) < Len(conns) =>
             /\ pollTimeoutMs >= s_pollTimeoutMinMs
             /\ pollTimeoutMs = BackoffAfterPrev

C15_Witness ==
    /\ pc = "poll"
    /\ Len(conns) = 2
    /\ Len(rgIpcPollHandles) = 1
    /\ prev.incomplete
    /\ prev.timeout > s_pollTimeoutMinMs
    /\ pollTimeoutMs = GetNextTimeout(prev.timeout)

(* C16: a call of GetNextAvailableStream obtains at most one stream from    *)
(* the connection states: no round starts with a stream already claimed,    *)
(* and one classification takes at most one stream (a client's cache        *)
(* emptied without deleting the stream, or one stream accepted by a         *)
(* server). The stream returned comes from a connection whose handle was    *)
(* SIGNALED, and every connection registered before it whose handle was     *)
(* SIGNALED too is a server whose Accept gave nothing.                      *)
C16_FirstSignaledOnly ==
    [][/\ pc' \in {"build", "poll", "classify"} => pStream' = 0
       /\ pc = "classify" =>
             LET taken == {i \in DOMAIN conns :
                              /\ conns[i].pStream # 0
                              /\ conns'[i].pStream = 0
                              /\ ~streams'[conns[i].pStream].deleted}
                 accepted == Len(streams') - Len(streams)
             IN  /\ accepted \in {0, 1}
                 /\ Cardinality(taken) + accepted <= 1
                 /\ (pStream' # 0) <=> (Cardinality(taken) + accepted = 1)
                 /\ (pc' = "return" /\ ret'.val # 0) =>
                       LET k == streams'[ret'.val].claimedFrom
                       IN  /\ k \in Signaled(retval, rgIpcPollHandles)
                           /\ \/ taken = {k} /\ conns[k].pStream = ret'.val
                              \/ /\ accepted = 1
                                 /\ conns[k].role = "Server"
                                 /\ ret'.val = Len(streams')
                           /\ \A j \in Signaled(retval, rgIpcPollHandles) :
                                 j < k => /\ conns[j].role = "Server"
                                          /\ conns'[j] = conns[j]]_vars

C16_Witness ==
    /\ pc = "return"
    /\ ret.val # 0
    /\ prev.signaled = {1, 2}
    /\ streams[ret.val].claimedFrom = 1
    /\ conns[2].role = "Client"
    /\ conns[2].pStream # 0
    /\ conns[2].pStream # ret.val

(* C17: a connection whose handle is SIGNALED in a round in which another   *)
(* connection's stream has already been claimed is not touched by the       *)
(* classification: its state and its cached stream stay as they were and no *)
(* Accept is made for it. Leaving the call and entering the next one change *)
(* no connection state, and the next round built puts the same cached       *)
(* stream, or the same listening server, into the poll set again without    *)
(* a new Connect or advertise.                                              *)
C17_LaterSignaledDeferred ==
    [][/\ (pc = "classify" /\ pStream' # 0) =>
             LET k == streams'[pStream'].claimedFrom
             IN  /\ conns[k].role = "Client" => Len(streams') = Len(streams)
                 /\ conns[k].role = "Server" => Len(streams') = Len(streams) + 1
                 /\ \A j \in Signaled(retval, rgIpcPollHandles) :
                       j > k =>
                          /\ conns'[j] = conns[j]
                          /\ conns[j].pStream # 0 =>
                                streams'[conns[j].pStream] = streams[conns[j].pStream]
       /\ (pc \in {"return", "idle"} /\ pc' \in {"idle", "build"}) =>
             /\ SubSeq(conns', 1, Len(conns)) = conns
             /\ streams' = streams
       /\ (pc = "build" /\ pc' = "poll") =>
             \A i \in DOMAIN conns :
                /\ conns[i].pStream # 0 =>
                      /\ conns'[i] = conns[i]
                      /\ streams'[conns[i].pStream] = streams[conns[i].pStream]
                      /\ \E n \in DOMAIN rgIpcPollHandles' :
                            /\ rgIpcPollHandles'[n].pUserData = i
                            /\ rgIpcPollHandles'[n].pStream = conns[i].pStream
                /\ conns[i].role = "Server" =>
                      /\ conns'[i] = conns[i]
                      /\ \E n \in DOMAIN rgIpcPollHandles' :
                            /\ rgIpcPollHandles'[n].pUserData = i
                            /\ rgIpcPollHandles'[n].pIpc = i]_vars

C17_Witness ==
    /\ pc = "return"
    /\ ret.val # 0
    /\ prev.signaled = {1, 2}
    /\ streams[ret.val].claimedFrom = 1
    /\ conns[1].role = "Client"
    /\ conns[2].role = "Server"
    /\ Len(streams) = 1

(* C18: in the poll set of every round a client has a handle exactly when   *)
(* its cache holds a stream, the handle refers to that stream and the       *)
(* stream has not been deleted. Building a round, a client whose cache was  *)
(* empty either caches the stream it opened or, when Connect or the         *)
(* advertise send failed, keeps an empty cache, contributes no handle and   *)
(* makes the round incomplete; a stream opened but not cached is deleted.   *)
HandlesOf(i) == {n \in DOMAIN rgIpcPollHandles : rgIpcPollHandles[n].pUserData = i}

C18_ClientHandleIsCachedStream ==
    [][/\ pc' = "poll" =>
             \A i \in DOMAIN conns' :
                conns'[i].role = "Client" =>
                   /\ Cardinality(HandlesOf(i)') <= 1
                   /\ (HandlesOf(i)' # {}) <=> (conns'[i].pStream # 0)
                   /\ \A n \in HandlesOf(i)' :
                         /\ rgIpcPollHandles'[n].pStream = conns'[i].pStream
                         /\ rgIpcPollHandles'[n].pIpc = 0
                         /\ ~streams'[conns'[i].pStream].deleted
                   /\ conns'[i].pStream = 0 => ~fConnectSuccess'
       /\ (pc = "build" /\ pc' = "poll") =>
             /\ \A i \in Reconnecting :
                   conns'[i].pStream = 0 \/ conns'[i].pStream > Len(streams)
             /\ \A s \in (Len(streams) + 1)..Len(streams') :
                   /\ streams'[s].from = "Connect"
                   /\ streams'[s].deleted <=>
                         ~(\E i \in DOMAIN conns' : conns'[i].pStream = s)
       /\ (pc = "poll" /\ pc' = "classify") =>
             /\ conns' = conns
             /\ streams' = streams
             /\ \A n \in DOMAIN rgIpcPollHandles :
                   rgIpcPollHandles'[n].pStream = rgIpcPollHandles[n].pStream]_vars

C18_Witness ==
    /\ pc = "poll"
    /\ Len(conns) = 2
    /\ conns[1].role = "Client" /\ conns[1].pStream = 0
    /\ conns[2].role = "Client" /\ conns[2].pStream = 2
    /\ streams[1].deleted /\ ~streams[1].hungup /\ ~streams[1].advOk
    /\ Len(rgIpcPollHandles) = 1
    /\ rgIpcPollHandles[1].pStream = 2
    /\ ~fConnectSuccess

(* C19: every stream opened by a client's Connect has had the advertise     *)
(* sent on it exactly once, however long it stays cached; a client stream   *)
(* that is cached, in a poll set, being returned or already returned had    *)
(* its advertise succeed, and one whose advertise failed was deleted        *)
(* without ever being polled or claimed.                                    *)
C19_AdvertisedExactlyOnce ==
    \A s \in DOMAIN streams :
       streams[s].from = "Connect" =>
          /\ streams[s].adv = 1
          /\ s \in (Cached \cup PollSetStreams \cup BeingReturned \cup Range(returned)) =>
                streams[s].advOk
          /\ ~streams[s].advOk =>
                /\ streams[s].deleted
                /\ ~streams[s].hungup
                /\ streams[s].claimedFrom = 0

C19_Witness ==
    /\ pc = "return"
    /\ returned = <<2>>
    /\ ret.val = 1
    /\ streams[1].from = "Connect"
    /\ streams[2].from = "Connect"
    /\ streams[1].adv = 1
    /\ streams[1].advOk

(* C20: a server whose handle is SIGNALED and whose Accept gives no stream  *)
(* does not end the call: without an ERR the classification never returns   *)
(* null; when the SIGNALED handles are all servers and none accepted a      *)
(* stream, nothing is claimed and another round starts; and a client whose  *)
(* handle is SIGNALED in the same round is still claimed from.              *)
C20_NullAcceptGoesOn ==
    [][(pc = "classify" /\ retval # 0 /\ ~ErrClassified) =>
          LET sig == Signaled(retval, rgIpcPollHandles)
          IN  /\ ~(pc' = "return" /\ ret'.val = 0)
              /\ (/\ sig # {}
                  /\ \A j \in sig : conns[j].role = "Server"
                  /\ Len(streams') = Len(streams)) =>
                    /\ pc' = "build"
                    /\ pStream' = 0
                    /\ ret' = ret
                    /\ returned' = returned
                    /\ rgIpcPollHandles' = <<>>
                    /\ \A j \in sig : conns'[j] = conns[j]
              /\ (\E k \in sig : conns[k].role = "Client") =>
                    /\ pc' = "return"
                    /\ ret'.val # 0
                    /\ \/ streams'[ret'.val].from = "Accept"
                       \/ \A j \in sig :
                             j < streams'[ret'.val].claimedFrom =>
                                conns[j].role = "Server"]_vars

C20_Witness ==
    /\ pc = "return"
    /\ ret.val # 0
    /\ prev.signaled = {1, 2}
    /\ conns[1].role = "Server"
    /\ conns[2].role = "Client"
    /\ streams[ret.val].claimedFrom = 2
    /\ streams[ret.val].from = "Connect"
    /\ Len(streams) = 1

=============================================================================
